---- MODULE Spec2Model ----
(***************************************************************************)
(* Family Stewardship Dashboard (src/app.py): a Streamlit page over a      *)
(* Google spreadsheet with three worksheets (Budgets, Daily_Spending,      *)
(* Dashboard_Data).                                                        *)
(*                                                                         *)
(* Cell text is a sequence of tokens.  Numeric-looking text is spelled one *)
(* character per token (<<"$","1",",","5">>); a label such as a category   *)
(* name is one token (<<"Food">>), a chunk of text with no digit in it.    *)
(* A Python float is a fixed-point integer counting 1/Scale units; float   *)
(* rounding is not modelled.                                               *)
(***************************************************************************)
EXTENDS Integers, Sequences, FiniteSets, TLC

VARIABLES
    sheets,          \* names of the worksheets that exist in the spreadsheet
    budgets,         \* all values of worksheet Budgets (header row first)
    daily,           \* all values of worksheet Daily_Spending
    dash,            \* all values of worksheet Dashboard_Data
    client_cached,   \* st.cache_resource holds the gspread client
    handles_cached,  \* st.cache_data holds the worksheet handles
    messages,        \* status messages shown by the latest run of main
    rendered,        \* views entered by the latest run of main
    raised,          \* exception that ended the latest run ("none" if none)
    kpi,             \* rollups shown by the dashboard in the latest run
    by_cat,          \* dashboard "Spending Breakdown" table of the latest run
    shown,           \* ledger: the filtered transactions table
    cat_totals,      \* ledger: "Category Totals vs Budget" amounts
    tf_in,           \* argument of the to_float call under test
    tf_out           \* its outcome

vars == <<sheets, budgets, daily, dash, client_cached, handles_cached,
          messages, rendered, raised, kpi, by_cat, shown, cat_totals,
          tf_in, tf_out>>

store_vars == <<sheets, budgets, daily, dash>>
cache_vars == <<client_cached, handles_cached>>
page_vars == <<messages, rendered, raised, kpi, by_cat, shown, cat_totals>>
tf_vars == <<tf_in, tf_out>>

----------------------------------------------------------------------------
(* Bounds of the model *)

\* longest text enumerated exhaustively as a to_float argument
MaxTextLen == 4

\* most categories a pre-existing Budgets table lacks
MaxMissing == 1

\* a transaction is added only while the log holds at most this many rows
MaxTxns == 2

\* the page adds a transaction only while the log holds fewer rows than this
MaxLog == 2

\* most check cells of a filled-in budget row that hold something other than a
\* plain numeral
MaxDirty == 1

----------------------------------------------------------------------------
(* Text and numbers *)

\* v computed once and handed to F as a value
With(v, F(_)) == CHOOSE r \in {F(x) : x \in {v}} : TRUE

RECURSIVE Pow10(_)
Pow10(n) == IF n = 0 THEN 1 ELSE 10 * Pow10(n - 1)

\* fixed-point resolution: a text of MaxTextLen tokens spells at most
\* MaxTextLen - 1 digits after its point
Scale == Pow10(MaxTextLen - 1)

DigitChars == <<"0", "1", "2", "3", "4", "5", "6", "7", "8", "9">>

IsDigit(c) == \E i \in 1..10 : DigitChars[i] = c

DigitVal(c) == (CHOOSE i \in 1..10 : DigitChars[i] = c) - 1

RECURSIVE NatVal(_)
\* value of a string of digits
NatVal(ds) ==
    IF ds = <<>> THEN 0
    ELSE NatVal(SubSeq(ds, 1, Len(ds) - 1)) * 10 + DigitVal(ds[Len(ds)])

RECURSIVE FracVal(_, _)
\* value, in 1/Scale units, of the digits after a decimal point
FracVal(ds, unit) ==
    IF ds = <<>> THEN 0
    ELSE DigitVal(ds[1]) * (unit \div 10) + FracVal(Tail(ds), unit \div 10)

\* str.replace(ch, "")
replace(s, ch) == SelectSeq(s, LAMBDA c : c # ch)

RECURSIVE lstrip(_)
lstrip(s) == IF s # <<>> /\ s[1] = " " THEN lstrip(Tail(s)) ELSE s

RECURSIVE rstrip(_)
rstrip(s) ==
    IF s # <<>> /\ s[Len(s)] = " " THEN rstrip(SubSeq(s, 1, Len(s) - 1)) ELSE s

\* str.strip()
strip(s) == rstrip(lstrip(s))

\* outcome of a Python call: a returned number, or an exception
Returned(v) == [raised |-> FALSE, val |-> v]
Raised == [raised |-> TRUE, val |-> 0]

\* float(s) for a str: optional whitespace, optional sign, decimal digits with
\* at most one point and at least one digit.  (Exponents, underscores, "inf"
\* and "nan" cannot be spelled with the tokens the model uses.)
py_float_str(s) ==
    With(strip(s), LAMBDA t :
    LET signed == t # <<>> /\ t[1] \in {"+", "-"}
        body == IF signed THEN Tail(t) ELSE t
        dots == {i \in 1..Len(body) : body[i] = "."}
        dot == IF dots = {} THEN Len(body) + 1 ELSE CHOOSE i \in dots : TRUE
        ip == SubSeq(body, 1, dot - 1)
        fp == SubSeq(body, dot + 1, Len(body))
        ok == /\ Cardinality(dots) <= 1
              /\ \A i \in 1..Len(ip) : IsDigit(ip[i])
              /\ \A i \in 1..Len(fp) : IsDigit(fp[i])
              /\ Len(ip) + Len(fp) >= 1
        mag == NatVal(ip) * Scale + FracVal(fp, Scale)
    IN  IF ok THEN Returned(IF signed /\ t[1] = "-" THEN 0 - mag ELSE mag)
        ELSE Raised)

\* Python values handed to to_float
Str(s) == [kind |-> "str", s |-> s, v |-> 0]
Num(v) == [kind |-> "num", s |-> <<>>, v |-> v]
None == [kind |-> "none", s |-> <<>>, v |-> 0]

\* lines 129-131: the body of the try block
to_float_try(x) ==
    With(x, LAMBDA y :
        IF y.kind = "str"
        THEN py_float_str(strip(replace(replace(y.s, "$"), ",")))
        ELSE IF y.kind = "num" THEN Returned(y.v)
        ELSE Raised)

\* mutant: the thousands separator is not removed
to_float_keeps_commas(x) ==
    LET r == IF x.kind = "str" THEN py_float_str(strip(replace(x.s, "$")))
             ELSE to_float_try(x)
    IN  IF r.raised THEN 0 ELSE r.val

to_float(x) ==
    With(to_float_try(x), LAMBDA r : IF r.raised THEN 0 ELSE r.val)

(* The numeral a text spells, read off independently of to_float *)

\* the text left after dropping every "$" and "," and the surrounding blanks
Cleaned(s) ==
    LET kept == SelectSeq(s, LAMBDA c : c \notin {"$", ","})
        inner == {i \in 1..Len(kept) : kept[i] # " "}
    IN  IF inner = {} THEN <<>>
        ELSE SubSeq(kept, CHOOSE i \in inner : \A j \in inner : i <= j,
                          CHOOSE i \in inner : \A j \in inner : j <= i)

\* a decimal numeral: sign?, digits with at most one point, at least one digit
IsNumeral(t) ==
    \E sg \in {0, 1} :
        /\ sg = 1 => (t # <<>> /\ t[1] \in {"+", "-"})
        /\ \A i \in (sg + 1)..Len(t) : IsDigit(t[i]) \/ t[i] = "."
        /\ Cardinality({i \in (sg + 1)..Len(t) : t[i] = "."}) <= 1
        /\ \E i \in (sg + 1)..Len(t) : IsDigit(t[i])

\* value of a numeral, digit by digit around the point
NumeralVal(t) ==
    LET n == Len(t)
        pts == {i \in 1..n : t[i] = "."}
        p == IF pts = {} THEN n + 1 ELSE CHOOSE i \in pts : TRUE
        digs == {i \in 1..n : IsDigit(t[i])}
        w(i) == IF i < p THEN DigitVal(t[i]) * Scale * Pow10(p - 1 - i)
                ELSE DigitVal(t[i]) * (Scale \div Pow10(i - p))
        RECURSIVE Sum(_)
        Sum(S) == IF S = {} THEN 0
                  ELSE LET i == CHOOSE j \in S : TRUE IN w(i) + Sum(S \ {i})
        mag == Sum(digs)
    IN  IF n > 0 /\ t[1] = "-" THEN 0 - mag ELSE mag

\* text of a non-negative integer
RECURSIVE NatText(_)
NatText(n) ==
    IF n < 10 THEN <<DigitChars[n + 1]>>
    ELSE NatText(n \div 10) \o <<DigitChars[(n % 10) + 1]>>

RECURSIVE FracText(_, _)
\* digits of a fraction f (in 1/unit), without trailing zeros
FracText(f, unit) ==
    IF f = 0 THEN <<>>
    ELSE <<DigitChars[((f * 10) \div unit) + 1]>>
             \o FracText((f * 10) % unit, unit)

\* the text the sheet shows for a value written to a cell: text stays as it
\* is, a number is shown in plain decimal (2500.0 as "2500", 12.5 as "12.5")
cell_text(x) ==
    IF x.kind = "str" THEN x.s
    ELSE IF x.kind = "none" THEN <<>>
    ELSE LET mag == IF x.v < 0 THEN 0 - x.v ELSE x.v
             frac == FracText(mag % Scale, Scale)
         IN  (IF x.v < 0 THEN <<"-">> ELSE <<>>)
                 \o NatText(mag \div Scale)
                 \o (IF frac = <<>> THEN <<>> ELSE <<".">> \o frac)

\* a label: one token of text
Label(name) == <<name>>

----------------------------------------------------------------------------
(* Configuration (lines 20-56) *)

DEFAULT_RENTAL_MONTHLY == 2500
DEFAULT_TITHE_PCT == 10
DEFAULT_SAVINGS_PCT == 10

SCRIPTURE ==
    <<"Malachi 3:10", "Proverbs 21:20", "Luke 14:28", "2 Corinthians 9:7",
      "Philippians 4:11-12">>

CATEGORIES_ORDERED ==
    <<"Tithe", "Rental Reserve", "Savings (Emergency)", "Food",
      "Transportation", "Insurance/Health", "Child", "Debt",
      "Clothing/Personal", "Subscriptions/Misc">>

LOW_LEVEL_CATEGORIES ==
    <<"Tithe", "Rental Reserve", "Savings (Emergency)", "Food",
      "Transportation", "Insurance/Health", "Child", "Debt",
      "Clothing/Personal", "Subscriptions/Misc">>

Range(f) == {f[i] : i \in DOMAIN f}

budget_headers ==
    <<"Category", "Check1_Temp", "Check2_Temp", "Check3_Temp", "Check4_Temp",
      "Check1_Post", "Check2_Post", "Check3_Post", "Check4_Post",
      "Monthly_Target">>

daily_headers == <<"Date", "Category", "Amount", "Memo">>

dash_headers == <<"Key", "Value">>

temp_cols == <<"Check1_Temp", "Check2_Temp", "Check3_Temp", "Check4_Temp">>

post_cols == <<"Check1_Post", "Check2_Post", "Check3_Post", "Check4_Post">>

\* a header row as the sheet holds it
HeaderRow(names) == [i \in 1..Len(names) |-> Label(names[i])]

----------------------------------------------------------------------------
(* The spreadsheet *)

BUDGETS == "Budgets"
DAILY == "Daily_Spending"
DASH == "Dashboard_Data"
WsNames == {BUDGETS, DAILY, DASH}

\* the spreadsheet as one value
Store == [sheets |-> sheets,
          tab |-> [n \in WsNames |->
                      IF n = BUDGETS THEN budgets
                      ELSE IF n = DAILY THEN daily ELSE dash]]

Max(a, b) == IF a >= b THEN a ELSE b

IsBlankRow(row) == \A j \in 1..Len(row) : row[j] = <<>>

RECURSIVE TrimBlankRows(_)
TrimBlankRows(vals) ==
    IF vals # <<>> /\ IsBlankRow(vals[Len(vals)])
    THEN TrimBlankRows(SubSeq(vals, 1, Len(vals) - 1))
    ELSE vals

Pad(row, w) == [j \in 1..Max(w, Len(row)) |-> IF j <= Len(row) THEN row[j] ELSE <<>>]

Width(vals) ==
    IF vals = <<>> THEN 0
    ELSE CHOOSE w \in {Len(vals[i]) : i \in 1..Len(vals)} :
             \A i \in 1..Len(vals) : Len(vals[i]) <= w

\* ws.get_all_values() after ws.update(range, rows) where the range starts at
\* column A of row `first`: the rows given overwrite the cells they cover, rows
\* in between are blank, every row is as wide as the widest
ws_update(vals, first, rows) ==
    With([i \in 1..Len(rows) |->
             [j \in 1..Len(rows[i]) |-> cell_text(rows[i][j])]], LAMBDA texts :
    With(Max(Width(vals), Width(texts)), LAMBDA w :
    LET n == Max(Len(vals), first + Len(rows) - 1)
        over(i) == texts[i - first + 1]
        old(i) == IF i <= Len(vals) THEN Pad(vals[i], w) ELSE Pad(<<>>, w)
        row(i) == IF i >= first /\ i < first + Len(rows)
                  THEN [j \in 1..w |-> IF j <= Len(over(i)) THEN over(i)[j]
                                        ELSE old(i)[j]]
                  ELSE old(i)
    IN  TrimBlankRows([i \in 1..n |-> row(i)])))

\* mutant: the row is written over the last row that holds a value
ws_append_row_over_last(vals, row) == ws_update(vals, Len(vals), <<row>>)

\* ws.append_row(row): the row goes below the last row that holds a value
ws_append_row(vals, row) == ws_update(vals, Len(vals) + 1, <<row>>)

\* ws.update_cell(r, c, value)
ws_update_cell(vals, r, c, value) ==
    With(Max(Width(vals), c), LAMBDA w :
    LET n == Max(Len(vals), r)
        old(i) == IF i <= Len(vals) THEN Pad(vals[i], w) ELSE Pad(<<>>, w)
    IN  TrimBlankRows([i \in 1..n |->
            IF i = r THEN [old(i) EXCEPT ![c] = cell_text(value)] ELSE old(i)]))

NoHeaders == <<>>

\* open_or_create_worksheet(sh, title, headers): the worksheet of that name,
\* created with the header row when the spreadsheet has none of that name
open_or_create_worksheet(S, title, headers) ==
    IF title \in S.sheets THEN S
    ELSE [sheets |-> S.sheets \cup {title},
          tab |-> [S.tab EXCEPT ![title] =
                      IF headers = NoHeaders THEN <<>>
                      ELSE <<HeaderRow(headers)>>]]

\* the rows init_sheets writes to an empty Budgets worksheet (lines 99-101)
seed_rows ==
    [i \in 1..Len(CATEGORIES_ORDERED) |->
        <<Str(Label(CATEGORIES_ORDERED[i]))>>
            \o [j \in 1..8 |-> Num(0)] \o <<Str(<<>>)>>]

\* the rows init_sheets writes to an empty Dashboard_Data worksheet
dash_seed_rows ==
    << <<Str(Label("Monthly_Income")), Num(0)>>,
       <<Str(Label("Rental_Monthly")), Num(DEFAULT_RENTAL_MONTHLY * Scale)>>,
       <<Str(Label("Tithe_Pct")), Num(DEFAULT_TITHE_PCT * Scale)>>,
       <<Str(Label("Savings_Pct")), Num(DEFAULT_SAVINGS_PCT * Scale)>>,
       <<Str(Label("Emergency_Target_Months")), Num(3 * Scale)>>,
       <<Str(Label("Emergency_Current")), Num(0)>>,
       <<Str(Label("Mode")), Str(Label("Temporary"))>>,
       <<Str(Label("Verse_Index")), Num(0)>> >>

\* mutant: the seed guard compares with the seeded size, so a seeded table
\* is seeded again
seed_budgets_reseeding(vals) ==
    IF Len(vals) <= Len(seed_rows) + 1 THEN ws_update(vals, 2, seed_rows) ELSE vals

\* lines 96-102: seed Budgets if empty
seed_budgets(vals) ==
    IF Len(vals) <= 1 THEN ws_update(vals, 2, seed_rows) ELSE vals

\* lines 104-116: seed Dashboard_Data
seed_dash(vals) ==
    IF Len(vals) <= 1 THEN ws_update(vals, 2, dash_seed_rows) ELSE vals

\* init_sheets (lines 78-118), once the spreadsheet is open
init_sheets(S) ==
    LET S1 == open_or_create_worksheet(S, BUDGETS, budget_headers)
        S2 == open_or_create_worksheet(S1, DAILY, daily_headers)
        S3 == open_or_create_worksheet(S2, DASH, dash_headers)
    IN  [sheets |-> S3.sheets,
         tab |-> [S3.tab EXCEPT ![BUDGETS] = seed_budgets(S3.tab[BUDGETS]),
                                ![DASH] = seed_dash(S3.tab[DASH])]]

SetStore(S) ==
    /\ sheets' = S.sheets
    /\ budgets' = S.tab[BUDGETS]
    /\ daily' = S.tab[DAILY]
    /\ dash' = S.tab[DASH]

----------------------------------------------------------------------------
(* Data frames and rollups *)

\* df_from_ws (lines 120-125)
df_from_ws(vals) ==
    IF vals = <<>> THEN [columns |-> <<>>, rows |-> <<>>]
    ELSE [columns |-> vals[1], rows |-> Tail(vals)]

HasCol(df, name) == \E j \in 1..Len(df.columns) : df.columns[j] = Label(name)

\* position of a column; 0 stands for pandas' KeyError
ColIdx(df, name) ==
    IF HasCol(df, name)
    THEN CHOOSE j \in 1..Len(df.columns) :
             /\ df.columns[j] = Label(name)
             /\ \A k \in 1..(j - 1) : df.columns[k] # Label(name)
    ELSE 0

\* df.empty: no row or no column
df_empty(df) == df.rows = <<>> \/ df.columns = <<>>

Categories == Range(CATEGORIES_ORDERED)

RECURSIVE SeqSum(_)
SeqSum(q) == IF q = <<>> THEN 0 ELSE q[1] + SeqSum(Tail(q))

\* row[mode_cols].applymap(to_float).sum(axis=1) for one row (line 142)
row_sum(df, row, cols) ==
    SeqSum([k \in 1..Len(cols) |-> to_float(Str(row[ColIdx(df, cols[k])]))])

\* mutant: the last of the selected check columns is left out of the sum
compute_totals_drops_check4(budget_df, mode_cols) ==
    [cat \in Categories |->
        LET c == ColIdx(budget_df, "Category")
            hits == {i \in 1..Len(budget_df.rows) : budget_df.rows[i][c] = Label(cat)}
        IN  IF hits = {} THEN 0
            ELSE row_sum(budget_df,
                         budget_df.rows[CHOOSE i \in hits : \A j \in hits : i <= j],
                         SubSeq(mode_cols, 1, Len(mode_cols) - 1))]

\* compute_totals (lines 135-143), for a frame that has the columns it reads
compute_totals(budget_df, mode_cols) ==
    [cat \in Categories |->
        LET c == ColIdx(budget_df, "Category")
            hits == {i \in 1..Len(budget_df.rows) : budget_df.rows[i][c] = Label(cat)}
        IN  IF hits = {} THEN 0
            ELSE row_sum(budget_df,
                         budget_df.rows[CHOOSE i \in hits : \A j \in hits : i <= j],
                         mode_cols)]

\* compute_totals raises KeyError when a column it reads is missing
compute_totals_raises(budget_df, mode_cols) ==
    \/ ~HasCol(budget_df, "Category")
    \/ /\ \E i \in 1..Len(budget_df.rows) :
             budget_df.rows[i][ColIdx(budget_df, "Category")] \in
                 {Label(cat) : cat \in Categories}
       /\ \E k \in 1..Len(mode_cols) : ~HasCol(budget_df, mode_cols[k])

RECURSIVE SumOver(_, _)
SumOver(f, S) ==
    IF S = {} THEN 0
    ELSE LET k == CHOOSE x \in S : TRUE IN f[k] + SumOver(f, S \ {k})

\* mutant: the tithe is counted among the living expenses
living_total_counts_tithe(totals) ==
    SumOver(totals, {k \in DOMAIN totals :
                        k \notin {"Rental Reserve", "Savings (Emergency)"}})

\* line 257
living_total_of(totals) ==
    SumOver(totals, {k \in DOMAIN totals :
                        k \notin {"Tithe", "Rental Reserve", "Savings (Emergency)"}})

\* totals.get(key, 0.0)
dict_get(d, key) == IF key \in DOMAIN d THEN d[key] ELSE 0

Modes == {"Temporary", "Post-Rental"}

\* line 249
mode_cols_of(mode) == IF mode = "Temporary" THEN temp_cols ELSE post_cols

NoKpi ==
    [shown |-> FALSE, mode |-> "Temporary", totals |-> [cat \in Categories |-> 0],
     tithe_total |-> 0, rental_total |-> 0, savings_total |-> 0, living_total |-> 0]

\* lines 245-257: the rollups the dashboard shows
rollups(budget_df, mode) ==
    With(compute_totals(budget_df, mode_cols_of(mode)), LAMBDA totals :
        [shown |-> TRUE, mode |-> mode, totals |-> totals,
         tithe_total |-> dict_get(totals, "Tithe"),
         rental_total |-> dict_get(totals, "Rental Reserve"),
         savings_total |-> dict_get(totals, "Savings (Emergency)"),
         living_total |-> living_total_of(totals)])

----------------------------------------------------------------------------
(* Dates *)

\* a datetime.date is the number yyyymmdd; NaT and a missing bound are 0
NaT == 0
NoDate == 0

Year(d) == d \div 10000
Month(d) == (d \div 100) % 100
Day(d) == d % 100

ZeroPad(n, width) ==
    LET t == NatText(n)
    IN  [i \in 1..(width - Len(t)) |-> "0"] \o t

\* str(date): ISO yyyy-mm-dd (line 191)
date_str(d) ==
    ZeroPad(Year(d), 4) \o <<"-">> \o ZeroPad(Month(d), 2) \o <<"-">>
        \o ZeroPad(Day(d), 2)

\* pd.to_datetime(text, errors="coerce").date() for ISO texts; any text that
\* is not a date becomes NaT (line 201)
to_datetime(t) ==
    LET shape == /\ Len(t) = 10
                 /\ t[5] = "-" /\ t[8] = "-"
                 /\ \A i \in {1, 2, 3, 4, 6, 7, 9, 10} : IsDigit(t[i])
        y == NatVal(SubSeq(t, 1, 4))
        m == NatVal(SubSeq(t, 6, 7))
        d == NatVal(SubSeq(t, 9, 10))
    IN  IF shape /\ m \in 1..12 /\ d \in 1..31 THEN y * 10000 + m * 100 + d
        ELSE NaT

----------------------------------------------------------------------------
(* The ledger (render_daily_spending) *)

RECURSIVE sort_by_date_desc(_)
\* df.sort_values("Date", ascending=False): latest first, NaT last, equal
\* dates in frame order
sort_by_date_desc(rs) ==
    IF rs = <<>> THEN <<>>
    ELSE LET best == CHOOSE i \in 1..Len(rs) :
                        /\ \A j \in 1..Len(rs) : rs[j].date <= rs[i].date
                        /\ \A j \in 1..(i - 1) : rs[j].date < rs[i].date
         IN  <<rs[best]>>
                 \o sort_by_date_desc(SubSeq(rs, 1, best - 1)
                                          \o SubSeq(rs, best + 1, Len(rs)))

\* mutant: the end bound is exclusive
filter_rows_end_exclusive(rs, start_date, end_date, category_filter, cat_col) ==
    LET a == IF start_date # NoDate
             THEN SelectSeq(rs, LAMBDA r : r.date # NaT /\ r.date >= start_date)
             ELSE rs
        b == IF end_date # NoDate
             THEN SelectSeq(a, LAMBDA r : r.date # NaT /\ r.date < end_date)
             ELSE a
    IN  IF category_filter # "All"
        THEN SelectSeq(b, LAMBDA r : r.cells[cat_col] = Label(category_filter))
        ELSE b

\* lines 202-206: a comparison with NaT is False, so a row without a date
\* fails every bound
filter_rows(rs, start_date, end_date, category_filter, cat_col) ==
    LET a == IF start_date # NoDate
             THEN SelectSeq(rs, LAMBDA r : r.date # NaT /\ r.date >= start_date)
             ELSE rs
        b == IF end_date # NoDate
             THEN SelectSeq(a, LAMBDA r : r.date # NaT /\ r.date <= end_date)
             ELSE a
    IN  IF category_filter # "All"
        THEN SelectSeq(b, LAMBDA r : r.cells[cat_col] = Label(category_filter))
        ELSE b

\* category labels in the order Python sorts them (groupby sorts its keys)
LexOrder ==
    <<"Child", "Clothing/Personal", "Debt", "Food", "Gifts", "Insurance/Health",
      "Rental Reserve", "Savings (Emergency)", "Subscriptions/Misc", "Tithe",
      "Transportation">>

RECURSIVE Concat(_)
Concat(q) == IF q = <<>> THEN <<>> ELSE q[1] \o Concat(Tail(q))

\* df.groupby("Category")["Amount"].sum() on the text cells of the sheet
\* (line 212): the sum of str objects is their concatenation
groupby_sum_text(rs, cat_col, amt_col) ==
    LET keys == SelectSeq(LexOrder, LAMBDA k :
                    \E i \in 1..Len(rs) : rs[i].cells[cat_col] = Label(k))
        of(k) == SelectSeq(rs, LAMBDA r : r.cells[cat_col] = Label(k))
    IN  [n \in 1..Len(keys) |->
            [Category |-> keys[n],
             Amount |-> Concat([i \in 1..Len(of(keys[n])) |->
                                   of(keys[n])[i].cells[amt_col]])]]

\* lines 214-217: the left merge with the Temporary budget totals, fillna(0)
merge_budget(totals, budget_df) ==
    LET c == ColIdx(budget_df, "Category")
        hits(k) == SelectSeq(budget_df.rows, LAMBDA r : r[c] = Label(k))
        line(t, bt) == [Category |-> t.Category, Amount |-> t.Amount,
                        Budget_Total |-> bt]
        lines(t) == IF hits(t.Category) = <<>> THEN <<line(t, 0)>>
                    ELSE [i \in 1..Len(hits(t.Category)) |->
                             line(t, row_sum(budget_df, hits(t.Category)[i], temp_cols))]
    IN  Concat([n \in 1..Len(totals) |-> lines(totals[n])])

NoLedger ==
    [drawn |-> FALSE, start_date |-> NoDate, end_date |-> NoDate,
     category_filter |-> "All", rows |-> <<>>]

NoForm == [submitted |-> FALSE, date |-> NoDate, category |-> "", amount |-> 0,
           memo |-> <<>>]

\* render_daily_spending (lines 181-221) on the values of Daily_Spending:
\* the values after the run, the transactions table and the totals table,
\* or the exception that ends the run
render_daily_spending(vals, budget_df, start_date, end_date, category_filter, form) ==
    With(IF form.submitted
         THEN ws_append_row(vals, <<Str(date_str(form.date)),
                                    Str(Label(form.category)),
                                    Num(form.amount), Str(form.memo)>>)
         ELSE vals, LAMBDA vals1 :
    With(df_from_ws(vals1), LAMBDA df :
    LET dcol == ColIdx(df, "Date")
        ccol == ColIdx(df, "Category")
        acol == ColIdx(df, "Amount")
        dated == [i \in 1..Len(df.rows) |->
                     [idx |-> i, cells |-> df.rows[i],
                      date |-> to_datetime(df.rows[i][dcol])]]
        kept == filter_rows(dated, start_date, end_date, category_filter, ccol)
        ledger == [drawn |-> TRUE, start_date |-> start_date, end_date |-> end_date,
                   category_filter |-> category_filter,
                   rows |-> sort_by_date_desc(kept)]
        out(r, l, t) == [vals |-> vals1, raised |-> r, shown |-> l, cat_totals |-> t]
    IN  IF df_empty(df) THEN out("none", NoLedger, <<>>)
        ELSE IF dcol = 0 THEN out("KeyError", NoLedger, <<>>)
        ELSE IF category_filter # "All" /\ ccol = 0 THEN out("KeyError", NoLedger, <<>>)
        ELSE IF ccol = 0 \/ acol = 0 THEN out("KeyError", ledger, <<>>)
        ELSE IF \E k \in 1..Len(temp_cols) : ~HasCol(budget_df, temp_cols[k])
        THEN out("KeyError", ledger, <<>>)
        ELSE IF ~HasCol(budget_df, "Category") THEN out("KeyError", ledger, <<>>)
        ELSE With(kept, LAMBDA rs :
                 out("none", ledger,
                     merge_budget(groupby_sum_text(rs, ccol, acol), budget_df)))))

----------------------------------------------------------------------------
(* One run of the page: the context threaded through the views *)

\* what a run has done so far: the spreadsheet and the page
Ctx(S) ==
    [sheets |-> S.sheets, tab |-> S.tab, messages |-> {}, rendered |-> {},
     raised |-> "none", kpi |-> NoKpi, by_cat |-> <<>>, shown |-> NoLedger,
     cat_totals |-> <<>>]

Raise(c, exc) == [c EXCEPT !.raised = exc]

Say(c, msg) == [c EXCEPT !.messages = @ \cup {msg}]

Enter(c, view) == [c EXCEPT !.rendered = @ \cup {view}]

\* the day the page runs: dt.date.today() and the first of its month
Today == CHOOSE d \in {20240131} : TRUE
MonthStart == (Today \div 100) * 100 + 1

\* the widgets of a run that nobody touched
Untouched ==
    [click |-> "none", verse_pick |-> 0, typed |-> FALSE, income |-> 0,
     rental |-> 0, mode_sel |-> "Temporary", edit_row |-> 0, edit_col |-> 0,
     edit_text |-> <<>>, form |-> NoForm, empty_write_ok |-> TRUE,
     start_date |-> MonthStart, end_date |-> Today, category_filter |-> "All"]

\* index (frame rows, from 1) of the rows of a key/value frame with that key
KeyRows(df, key) ==
    {i \in 1..Len(df.rows) : df.rows[i][ColIdx(df, "Key")] = Label(key)}

FirstOf(S) == CHOOSE i \in S : \A j \in S : i <= j

\* dash_df.loc[dash_df["Key"] == key, "Value"].values[0]
ValueOf(df, key) == df.rows[FirstOf(KeyRows(df, key))][ColIdx(df, "Value")]

\* verse_header (lines 151-165): "New verse" stores a random index in the
\* Value cell of the Verse_Index row
verse_header(c, w) ==
    With(df_from_ws(c.tab[DASH]), LAMBDA dash_df :
        IF w.click # "new_verse" THEN c
        ELSE IF ~HasCol(dash_df, "Key") THEN Raise(c, "KeyError")
        ELSE IF KeyRows(dash_df, "Verse_Index") = {} THEN Raise(c, "IndexError")
        ELSE [c EXCEPT !.tab[DASH] =
                 ws_update_cell(c.tab[DASH],
                                FirstOf(KeyRows(dash_df, "Verse_Index")) + 1, 2,
                                Num(w.verse_pick * Scale))])

\* lines 240-242: the three range updates of "Save Dashboard Settings"
save_settings(vals, monthly_income, rental_monthly, mode) ==
    With(ws_update(vals, 2, << <<Str(Label("Monthly_Income")), Num(monthly_income)>> >>),
         LAMBDA vals2 :
    With(ws_update(vals2, 3, << <<Str(Label("Rental_Monthly")), Num(rental_monthly)>> >>),
         LAMBDA vals3 :
            ws_update(vals3, 7, << <<Str(Label("Mode")), Str(Label(mode))>> >>)))

RECURSIVE sort_by_amount_desc(_)
\* sort_values("Amount", ascending=False), equal amounts in frame order
sort_by_amount_desc(ts) ==
    IF ts = <<>> THEN <<>>
    ELSE LET best == CHOOSE i \in 1..Len(ts) :
                        /\ \A j \in 1..Len(ts) : ts[j].Amount <= ts[i].Amount
                        /\ \A j \in 1..(i - 1) : ts[j].Amount < ts[i].Amount
         IN  <<ts[best]>>
                 \o sort_by_amount_desc(SubSeq(ts, 1, best - 1)
                                            \o SubSeq(ts, best + 1, Len(ts)))

\* lines 291-292: amounts normalized, then summed per category
groupby_sum_float(df) ==
    LET c == ColIdx(df, "Category")
        a == ColIdx(df, "Amount")
        keys == SelectSeq(LexOrder, LAMBDA k :
                    \E i \in 1..Len(df.rows) : df.rows[i][c] = Label(k))
        of(k) == SelectSeq(df.rows, LAMBDA r : r[c] = Label(k))
    IN  sort_by_amount_desc(
            [n \in 1..Len(keys) |->
                [Category |-> keys[n],
                 Amount |-> SeqSum([i \in 1..Len(of(keys[n])) |->
                                       to_float(Str(of(keys[n])[i][a]))])]])

\* lines 287-297 of dashboard_view: the transactions summary
dashboard_actuals(c) ==
    With(df_from_ws(c.tab[DAILY]), LAMBDA daily_df :
        IF df_empty(daily_df) THEN Say(c, "no_transactions_logged")
        ELSE IF ~HasCol(daily_df, "Amount") \/ ~HasCol(daily_df, "Category")
        THEN Raise(c, "KeyError")
        ELSE [c EXCEPT !.by_cat = groupby_sum_float(daily_df)])

\* lines 245-265 of dashboard_view: the rollups of the selected mode
dashboard_totals(c, mode) ==
    With(df_from_ws(c.tab[BUDGETS]), LAMBDA budget_df :
        IF compute_totals_raises(budget_df, mode_cols_of(mode))
        THEN Raise(c, "KeyError")
        ELSE With([c EXCEPT !.kpi = rollups(budget_df, mode)], dashboard_actuals))

\* dashboard_view (lines 223-297)
dashboard_view(c0, w) ==
    With(verse_header(Enter(c0, "dashboard"), w), LAMBDA c :
    With(df_from_ws(c.tab[DASH]), LAMBDA dash_df :
    LET stored_mode == IF KeyRows(dash_df, "Mode") # {} THEN ValueOf(dash_df, "Mode")
                       ELSE Label("Temporary")
        monthly_income == IF w.typed THEN w.income
                          ELSE to_float(Str(ValueOf(dash_df, "Monthly_Income")))
        rental_monthly == IF w.typed THEN w.rental
                          ELSE to_float(Str(ValueOf(dash_df, "Rental_Monthly")))
        mode == IF w.typed THEN w.mode_sel
                ELSE IF stored_mode = Label("Temporary") THEN "Temporary"
                ELSE "Post-Rental"
        saved == IF w.click = "save_settings"
                 THEN Say([c EXCEPT !.tab[DASH] =
                              save_settings(c.tab[DASH], monthly_income,
                                            rental_monthly, mode)],
                          "saved_settings")
                 ELSE c
    IN  IF c.raised # "none" THEN c
        ELSE IF ~HasCol(dash_df, "Key") \/ ~HasCol(dash_df, "Value")
        THEN Raise(c, "KeyError")
        ELSE IF \E k \in {"Monthly_Income", "Rental_Monthly", "Tithe_Pct", "Savings_Pct"} :
                    KeyRows(dash_df, k) = {}
        THEN Raise(c, "IndexError")
        ELSE With(saved, LAMBDA c1 : dashboard_totals(c1, mode))))

display_cols_of(mode_cols) == <<"Category">> \o mode_cols \o <<"Monthly_Target">>

\* render_budget_table (lines 167-179): the editor shows the display columns;
\* "Save changes" copies the edited check and target columns into the frame
\* read back from the sheet and writes every row of it from A2 down
render_budget_table(c, w, mode_cols, title) ==
    With(df_from_ws(c.tab[BUDGETS]), LAMBDA df :
    LET display_cols == display_cols_of(mode_cols)
        edited(i, col) ==
            IF w.click = title /\ i = w.edit_row /\ display_cols[w.edit_col] = col
            THEN w.edit_text
            ELSE df.rows[i][ColIdx(df, col)]
        written == Range(mode_cols) \cup {"Monthly_Target"}
        base == [i \in 1..Len(df.rows) |->
                    [j \in 1..Len(df.rows[i]) |->
                        IF \E col \in written : ColIdx(df, col) = j
                        THEN Str(edited(i, CHOOSE col \in written : ColIdx(df, col) = j))
                        ELSE Str(df.rows[i][j])]]
    IN  IF \E k \in 1..Len(display_cols) : ~HasCol(df, display_cols[k])
        THEN Raise(c, "KeyError")
        ELSE IF w.click # title THEN c
        ELSE With(base, LAMBDA rows :
                 IF rows = <<>> /\ ~w.empty_write_ok THEN Raise(c, "APIError")
                 ELSE Say([c EXCEPT !.tab[BUDGETS] = ws_update(c.tab[BUDGETS], 2, rows)],
                          "saved_budget")))

TEMP_EDITOR == "Temporary Mode Editor"
POST_EDITOR == "Post-Rental Mode Editor"

\* budgets_view (lines 299-310)
budgets_view(c0, w) ==
    With(render_budget_table(Enter(c0, "budgets"), w, temp_cols, TEMP_EDITOR),
         LAMBDA c :
            IF c.raised # "none" THEN c
            ELSE render_budget_table(c, w, post_cols, POST_EDITOR))

\* daily_view (lines 312-320)
daily_view(c0, w) ==
    With(Enter(c0, "daily"), LAMBDA c :
    With(df_from_ws(c.tab[BUDGETS]), LAMBDA budget_df :
    LET options == {"All"} \cup
                       {k \in Range(LexOrder) :
                           \E i \in 1..Len(budget_df.rows) :
                               budget_df.rows[i][ColIdx(budget_df, "Category")] = Label(k)}
        category_filter == IF w.category_filter \in options THEN w.category_filter
                           ELSE "All"
        msgs(r) == (IF w.form.submitted THEN {"transaction_added"} ELSE {})
                    \cup (IF df_empty(df_from_ws(r.vals)) THEN {"no_transactions_yet"}
                          ELSE {})
    IN  IF ~HasCol(budget_df, "Category") THEN Raise(c, "KeyError")
        ELSE With(render_daily_spending(c.tab[DAILY], budget_df, w.start_date,
                                        w.end_date, category_filter, w.form),
                  LAMBDA r :
                    [c EXCEPT !.tab[DAILY] = r.vals, !.raised = r.raised,
                              !.shown = r.shown, !.cat_totals = r.cat_totals,
                              !.messages = @ \cup msgs(r)])))

\* init_sheets_cached (lines 330-337), once the spreadsheet is open: no
\* header row is passed
init_sheets_cached(S) ==
    open_or_create_worksheet(
        open_or_create_worksheet(
            open_or_create_worksheet(S, BUDGETS, NoHeaders), DAILY, NoHeaders),
        DASH, NoHeaders)

\* lines 364-372 of main: the three tabs, in order; an exception ends the run
tabs(c, w) ==
    With(dashboard_view(c, w), LAMBDA c1 :
    With(IF c1.raised # "none" THEN c1 ELSE budgets_view(c1, w), LAMBDA c2 :
        IF c2.raised # "none" THEN c2 ELSE daily_view(c2, w)))

\* main (lines 339-372): sheet_id is whether an id is configured, conn how
\* the connection goes, cached whether the worksheet handles are cached
main(S, w, sheet_id, conn, cached) ==
    LET c == Ctx(S)
        hello == Say(c, "connected")
    IN  IF ~sheet_id THEN Say(c, "no_sheet_id")
        ELSE IF conn # "ok" THEN Say(hello, "auth_error")
        ELSE With(IF cached THEN S ELSE init_sheets_cached(S), LAMBDA S1 :
                With([hello EXCEPT !.sheets = S1.sheets, !.tab = S1.tab],
                     LAMBDA c0 : tabs(c0, w)))

----------------------------------------------------------------------------
(* Spreadsheets the program may be pointed at *)

NotCalled == [called |-> FALSE, val |-> 0]

StoreIdle ==
    /\ sheets = {}
    /\ budgets = <<>>
    /\ daily = <<>>
    /\ dash = <<>>
    /\ client_cached = FALSE
    /\ handles_cached = FALSE

PageIdle ==
    /\ messages = {}
    /\ rendered = {}
    /\ raised = "none"
    /\ kpi = NoKpi
    /\ by_cat = <<>>
    /\ shown = NoLedger
    /\ cat_totals = <<>>


NCat == Len(CATEGORIES_ORDERED)

DirtyTexts == { <<"$", "1", ",", "2", "0", "0", ".", "5">>, <<"a", "b", "c">> }

\* a budget row: the category, eight check cells, an empty target
BudgetRow(c, cells) ==
    <<Label(CATEGORIES_ORDERED[c])>> \o cells \o << <<>> >>

ZeroCells == [j \in 1..8 |-> <<"0">>]

\* check-cell patterns of a filled-in row: cell j holds the numeral j, except
\* that at most md cells hold a currency-formatted or an unparseable text
CellPatterns(md) ==
    {[j \in 1..8 |-> IF j \in DOMAIN g THEN g[j] ELSE <<DigitChars[j + 1]>>] :
        g \in UNION {[D -> DirtyTexts] :
                        D \in {E \in SUBSET (1..8) : Cardinality(E) <= md}}}

\* Budgets tables with a header and one row per category in canonical order,
\* at most mm categories missing; the first row, a later row or both are
\* filled in, the other rows hold zeros
BudgetTablesOf(mm, md) ==
    LET keeps == {P \in SUBSET (1..NCat) : Cardinality(P) >= NCat - mm}
        order(P) == SelectSeq([i \in 1..NCat |-> i], LAMBDA i : i \in P)
        table(P, R, cells) ==
            <<HeaderRow(budget_headers)>>
                \o [r \in 1..Cardinality(P) |->
                       BudgetRow(order(P)[r], IF r \in R THEN cells ELSE ZeroCells)]
    IN  {table(P, R, cells) :
             P \in keeps, R \in {{1}, {NCat - mm}, {1, NCat - mm}},
             cells \in CellPatterns(md)}

BudgetTables == BudgetTablesOf(MaxMissing, MaxDirty)

\* for seeding only the number of rows decides: filled-in rows of plain
\* numerals are enough to tell an overwritten row from a kept one
SeedTables == BudgetTablesOf(MaxMissing, 0)

SeededBudgets == ws_update(<<HeaderRow(budget_headers)>>, 2, seed_rows)

SeededDash == ws_update(<<HeaderRow(dash_headers)>>, 2, dash_seed_rows)

CachesCold ==
    /\ client_cached = FALSE
    /\ handles_cached = FALSE

----------------------------------------------------------------------------
(* Specification SpecSeed: init_sheets run against pre-existing spreadsheets *)

InitSeed ==
    /\ sheets \in SUBSET WsNames
    /\ \/ BUDGETS \notin sheets /\ budgets = <<>>
       \/ BUDGETS \in sheets
             /\ budgets \in {<<>>, <<HeaderRow(budget_headers)>>,
                              << BudgetRow(4, ZeroCells) >>} \cup SeedTables
    /\ \/ DASH \notin sheets /\ dash = <<>>
       \/ DASH \in sheets /\ dash \in {<<>>, <<HeaderRow(dash_headers)>>, SeededDash}
    /\ \/ DAILY \notin sheets /\ daily = <<>>
       \/ DAILY \in sheets /\ daily = <<HeaderRow(daily_headers)>>
    /\ CachesCold
    /\ PageIdle
    /\ tf_in = None
    /\ tf_out = NotCalled

\* one call of init_sheets
SeedStep ==
    /\ SetStore(init_sheets(Store))
    /\ UNCHANGED <<cache_vars, page_vars, tf_vars>>

NextSeed == SeedStep

SpecSeed == InitSeed /\ [][NextSeed]_vars

----------------------------------------------------------------------------
(* C1 *)

ZeroSeedRow(i) ==
    <<Label(CATEGORIES_ORDERED[i])>> \o [j \in 1..8 |-> <<"0">>] \o << <<>> >>

C1_Step ==
    /\ Len(budgets) >= 2 => budgets' = budgets
    /\ Len(budgets) <= 1 =>
          /\ Len(budgets') = NCat + 1
          /\ \A i \in 1..NCat : budgets'[i + 1] = ZeroSeedRow(i)
          /\ Len(budgets) = 1 => budgets'[1] = budgets[1]
    /\ init_sheets(Store)' = Store'

\* C1: seeding is idempotent - a Budgets table that holds a data row is left
\* as it is; one that holds none gets exactly 10 rows below the header row,
\* one per category of CATEGORIES_ORDERED in that order, every check column
\* "0"; seeding the result again changes nothing.
C1_SeedIdempotent == [][C1_Step]_vars

\* a worksheet that existed with no cell filled has been seeded: a blank
\* header row and the ten zero rows
C1_Witness ==
    /\ Len(budgets) = NCat + 1
    /\ IsBlankRow(budgets[1])
    /\ \A i \in 1..NCat : budgets[i + 1] = ZeroSeedRow(i)

----------------------------------------------------------------------------
(* Specification SpecTotals: the dashboard's rollups over budget tables *)

InitTotals ==
    /\ sheets = WsNames
    /\ budgets \in BudgetTables \cup {<<HeaderRow(budget_headers)>>}
    /\ daily = <<HeaderRow(daily_headers)>>
    /\ dash = SeededDash
    /\ CachesCold
    /\ PageIdle
    /\ tf_in = None
    /\ tf_out = NotCalled

\* the dashboard computes and shows the rollups in the selected mode
RollupStep ==
    /\ ~kpi.shown
    /\ \E mode \in Modes :
          /\ ~compute_totals_raises(df_from_ws(budgets), mode_cols_of(mode))
          /\ kpi' = rollups(df_from_ws(budgets), mode)
    /\ UNCHANGED <<store_vars, cache_vars, messages, rendered, raised, by_cat,
                   shown, cat_totals, tf_vars>>

NextTotals == RollupStep

SpecTotals == InitTotals /\ [][NextTotals]_vars

----------------------------------------------------------------------------
(* C4, C5 *)

\* a cell after currency normalization, read off the text itself
NormVal(cell) ==
    IF IsNumeral(Cleaned(cell)) THEN NumeralVal(Cleaned(cell)) ELSE 0

\* the sheet columns of the four check cells of a mode: B-E or F-I
CheckColumns(mode) == IF mode = "Temporary" THEN 2..5 ELSE 6..9

RowsOfCategory(cat) == {i \in 2..Len(budgets) : budgets[i][1] = Label(cat)}

RECURSIVE SumCells(_, _)
SumCells(row, J) ==
    IF J = {} THEN 0
    ELSE LET j == CHOOSE x \in J : TRUE IN NormVal(row[j]) + SumCells(row, J \ {j})

\* C4: the rollup has exactly the 10 fixed categories as keys; a category with
\* no row in the table maps to 0, a category with a row maps to the sum of
\* that row's four check cells of the selected mode, each normalized, an
\* unparseable cell counting as zero.
C4_ComputeTotals ==
    kpi.shown =>
        /\ DOMAIN kpi.totals = Categories
        /\ Cardinality(DOMAIN kpi.totals) = 10
        /\ \A cat \in Categories :
              /\ RowsOfCategory(cat) = {} => kpi.totals[cat] = 0
              /\ \A i \in RowsOfCategory(cat) :
                    kpi.totals[cat] = SumCells(budgets[i], CheckColumns(kpi.mode))

\* a rollup over a table that lacks a category and holds a row mixing plain
\* numerals with a currency-formatted cell in the selected columns
C4_Witness ==
    /\ kpi.shown
    /\ \E cat \in Categories : RowsOfCategory(cat) = {}
    /\ \E cat \in Categories : \E i \in RowsOfCategory(cat) :
          /\ kpi.totals[cat] > 1200 * Scale
          /\ \E j \in CheckColumns(kpi.mode) : budgets[i][j] = <<"3">>
          /\ \E j \in CheckColumns(kpi.mode) : \E k \in 1..Len(budgets[i][j]) :
                budgets[i][j][k] = "$"

\* C5: the living-expenses total equals the sum of all ten category totals
\* minus the tithe, rental-reserve and savings totals, in both modes.
C5_LivingPartition ==
    kpi.shown =>
        kpi.living_total =
            SumOver(kpi.totals, Categories) - kpi.tithe_total
                - kpi.rental_total - kpi.savings_total

\* rollups shown with a non-zero tithe next to non-zero living expenses
C5_Witness ==
    /\ kpi.shown
    /\ kpi.tithe_total # 0
    /\ kpi.living_total # 0

----------------------------------------------------------------------------
(* Specification SpecLedger: render_daily_spending over transaction logs *)

\* dates picked in the add form
TxnDates == {20240105, 20240120}

\* categories picked in the add form (two of LOW_LEVEL_CATEGORIES)
TxnCategories == {"Food", "Tithe"}

\* amounts typed in the add form: 12.5
TxnAmounts == {125 * (Scale \div 10)}

TxnForms ==
    {[submitted |-> TRUE, date |-> d, category |-> c, amount |-> a, memo |-> <<>>] :
        d \in TxnDates, c \in TxnCategories, a \in TxnAmounts}

\* dates of rows found in the sheet
FoundDates == {20240201}

\* logs found in the sheet: none, or two rows typed by hand - one whose date
\* is no date and whose amount is currency-formatted, one of a free category
FoundLogs ==
    { <<HeaderRow(daily_headers)>>,
      <<HeaderRow(daily_headers),
        << <<"a", "b", "c">>, Label("Food"), <<"$", "7">>, <<>> >>,
        << date_str(CHOOSE d \in FoundDates : TRUE), Label("Gifts"), <<"3">>,
           Label("memo") >> >> }

FilterStarts == {NoDate, 20240105}
FilterEnds == {NoDate, 20240120}
FilterCategories == {"All", "Food"}

\* the Budgets table the ledger compares with: the Food row filled in
LedgerBudgets ==
    <<HeaderRow(budget_headers)>>
        \o [i \in 1..NCat |->
               BudgetRow(i, IF i = 4 THEN [j \in 1..8 |-> <<DigitChars[j + 1]>>]
                            ELSE ZeroCells)]

InitLedger ==
    /\ sheets = WsNames
    /\ budgets = LedgerBudgets
    /\ daily \in FoundLogs
    /\ dash = SeededDash
    /\ CachesCold
    /\ PageIdle
    /\ tf_in = None
    /\ tf_out = NotCalled

LedgerRun(start_date, end_date, category_filter, form) ==
    LET r == render_daily_spending(daily, df_from_ws(budgets), start_date,
                                   end_date, category_filter, form)
    IN  /\ daily' = r.vals
        /\ raised' = r.raised
        /\ shown' = r.shown
        /\ cat_totals' = r.cat_totals
        /\ UNCHANGED <<sheets, budgets, dash, cache_vars, messages, rendered,
                       kpi, by_cat, tf_vars>>

\* the add form is submitted; the filters are left open
LedgerAdd ==
    /\ Len(daily) <= MaxTxns + 1
    /\ \E form \in TxnForms : LedgerRun(NoDate, NoDate, "All", form)

\* the ledger is drawn under a filter
LedgerFilter ==
    \E s \in FilterStarts, e \in FilterEnds, c \in FilterCategories :
        LedgerRun(s, e, c, NoForm)

NextLedger == LedgerAdd \/ LedgerFilter

SpecLedger == InitLedger /\ [][NextLedger]_vars

----------------------------------------------------------------------------
(* C6 *)

\* the dates that occur in the forms and the filters
KnownDates == (TxnDates \cup FoundDates \cup FilterStarts \cup FilterEnds) \ {NoDate}

\* the date a Date cell spells, found by formatting the known dates
SpelledDates(cell) == {x \in KnownDates : date_str(x) = cell}

\* the sheet rows (2..) that match the filter the ledger was drawn with
Matching ==
    {i \in 2..Len(daily) :
        /\ shown.start_date # NoDate =>
              \E x \in SpelledDates(daily[i][1]) : shown.start_date <= x
        /\ shown.end_date # NoDate =>
              \E x \in SpelledDates(daily[i][1]) : x <= shown.end_date
        /\ shown.category_filter # "All" =>
              daily[i][2] = Label(shown.category_filter)}

\* C6: the ledger shows exactly the rows whose date lies within the given
\* bounds, both inclusive, and whose category equals the filter unless it is
\* "All"; a row whose date cannot be parsed is not shown under a date bound,
\* and filtering it raises nothing.
C6_LedgerFilter ==
    /\ raised = "none"
    /\ shown.drawn =>
          /\ {shown.rows[n].idx + 1 : n \in 1..Len(shown.rows)} = Matching
          /\ Len(shown.rows) = Cardinality(Matching)
          /\ \A n \in 1..Len(shown.rows) :
                shown.rows[n].cells = daily[shown.rows[n].idx + 1]

\* a bounded filter applied to a log that holds a row on the end bound, a
\* row after it and a row without a date: only the first is shown
C6_Witness ==
    /\ shown.drawn
    /\ shown.start_date # NoDate
    /\ shown.end_date # NoDate
    /\ \E i \in 2..Len(daily) : daily[i][1] = <<"a", "b", "c">>
    /\ \E i \in 2..Len(daily) : daily[i][1] = date_str(20240201)
    /\ \E i \in 2..Len(daily) : daily[i][1] = date_str(shown.end_date)
    /\ Len(shown.rows) = 1

----------------------------------------------------------------------------
(* Specification Spec: the page, one action per kind of run *)

\* what the user enters
VersePicks == {Len(SCRIPTURE) - 1}
Incomes == {5000 * Scale}
Rentals == {1200 * Scale}
EditRows == {1}
EditCols == {2}
EditTexts == { <<"$", "1", ",", "2", "0", "0", ".", "5">> }
PageForms == {f \in TxnForms : f.date = 20240105 /\ f.category = "Food"}

Init ==
    /\ \/ /\ sheets = {}
          /\ budgets = <<>> /\ daily = <<>> /\ dash = <<>>
       \/ /\ sheets = WsNames
          /\ budgets \in {<<HeaderRow(budget_headers)>>, SeededBudgets}
          /\ daily = <<HeaderRow(daily_headers)>>
          /\ dash \in {<<HeaderRow(dash_headers)>>, SeededDash}
    /\ CachesCold
    /\ PageIdle
    /\ tf_in = None
    /\ tf_out = NotCalled

\* one run of main with the widgets w; conn tells how the connection goes
Run(w, sheet_id, conn) ==
    \E c \in {main(Store, w, sheet_id, conn, handles_cached)} :
        /\ conn = "client_fails" => ~client_cached
        /\ conn = "open_fails" => ~handles_cached
        /\ sheets' = c.sheets
        /\ budgets' = c.tab[BUDGETS]
        /\ daily' = c.tab[DAILY]
        /\ dash' = c.tab[DASH]
        /\ messages' = c.messages
        /\ rendered' = c.rendered
        /\ raised' = c.raised
        /\ kpi' = c.kpi
        /\ by_cat' = c.by_cat
        /\ shown' = c.shown
        /\ cat_totals' = c.cat_totals
        /\ client_cached' = (client_cached \/ (sheet_id /\ conn # "client_fails"))
        /\ handles_cached' = (handles_cached \/ (sheet_id /\ conn = "ok"))

\* the page is loaded, or reruns with no widget touched
PageLoad ==
    /\ Run(Untouched, TRUE, "ok")
    /\ UNCHANGED tf_vars

NewVerse ==
    /\ \E pick \in VersePicks :
          Run([Untouched EXCEPT !.click = "new_verse", !.verse_pick = pick], TRUE, "ok")
    /\ UNCHANGED tf_vars

SaveDashboardSettings ==
    /\ \E income \in Incomes, rental \in Rentals, mode \in Modes :
          Run([Untouched EXCEPT !.click = "save_settings", !.typed = TRUE,
                                !.income = income, !.rental = rental,
                                !.mode_sel = mode], TRUE, "ok")
    /\ UNCHANGED tf_vars

SaveBudgetEdits ==
    \E title \in {TEMP_EDITOR, POST_EDITOR}, row \in EditRows \cup {0},
       col \in EditCols, text \in EditTexts, ok \in BOOLEAN :
        /\ IF Len(budgets) <= 1 THEN row = 0 ELSE (row # 0 /\ row < Len(budgets) /\ ok)
        /\ Run([Untouched EXCEPT !.click = title, !.edit_row = row,
                                 !.edit_col = col, !.edit_text = text,
                                 !.empty_write_ok = ok], TRUE, "ok")
        /\ UNCHANGED tf_vars

AddTransaction ==
    /\ Len(daily) <= MaxLog
    /\ \E form \in PageForms : Run([Untouched EXCEPT !.form = form], TRUE, "ok")
    /\ UNCHANGED tf_vars

FilterLedger ==
    /\ \E s \in FilterStarts \ {NoDate}, e \in FilterEnds \ {NoDate},
          cf \in FilterCategories \ {"All"} :
            Run([Untouched EXCEPT !.start_date = s, !.end_date = e,
                                  !.category_filter = cf], TRUE, "ok")
    /\ UNCHANGED tf_vars

\* creating the client, or opening the spreadsheet, raises (lines 357-362)
ConnectionFails ==
    /\ \E conn \in {"client_fails", "open_fails"} : Run(Untouched, TRUE, conn)
    /\ UNCHANGED tf_vars

\* no sheet id is configured (lines 348-351)
NoSheetId ==
    /\ Run(Untouched, FALSE, "ok")
    /\ UNCHANGED tf_vars

\* a cache entry outlives its ttl (lines 325, 330)
CacheExpire ==
    /\ \/ client_cached /\ client_cached' = FALSE /\ UNCHANGED handles_cached
       \/ handles_cached /\ handles_cached' = FALSE /\ UNCHANGED client_cached
    /\ UNCHANGED <<store_vars, page_vars, tf_vars>>

Next ==
    \/ PageLoad
    \/ NewVerse
    \/ SaveDashboardSettings
    \/ SaveBudgetEdits
    \/ AddTransaction
    \/ FilterLedger
    \/ ConnectionFails
    \/ NoSheetId
    \/ CacheExpire

Spec == Init /\ [][Next]_vars

(* Claims checked under Spec *)

SettingsKeys ==
    {"Monthly_Income", "Rental_Monthly", "Tithe_Pct", "Savings_Pct",
     "Emergency_Target_Months", "Emergency_Current", "Mode", "Verse_Index"}

\* rows of the Dashboard_Data values that hold the key
RowsWithKey(vals, key) == {i \in 2..Len(vals) : vals[i][1] = Label(key)}

KeysOnce(vals) == \A k \in SettingsKeys : Cardinality(RowsWithKey(vals, k)) = 1

BudgetsSeeded ==
    /\ Len(budgets) = NCat + 1
    /\ \A i \in 1..NCat : budgets[i + 1][1] = Label(CATEGORIES_ORDERED[i])

\* C2: whenever a run of main has rendered a view, the Budgets table holds
\* its ten category rows and the settings table holds every default key:
\* both were seeded before the views read them.
C2_SeededBeforeViews ==
    rendered # {} => (BudgetsSeeded /\ KeysOnce(dash))

\* what a step may do to Daily_Spending
C7_Step ==
    /\ Len(daily') >= Len(daily)
    /\ SubSeq(daily', 1, Len(daily)) = daily
    /\ Len(daily') <= Len(daily) + 1
    /\ Len(daily') = Len(daily) + 1 => "transaction_added" \in messages'

\* C7: every step keeps the rows of Daily_Spending as they are and where they
\* are; the table grows by at most one row in a step, and only in a run that
\* reports an added transaction.
C7_AppendOnly == [][C7_Step]_vars

\* two transactions are logged and a later run saved the budget table
C7_Witness ==
    /\ Len(daily) >= 3
    /\ "saved_budget" \in messages

\* what a run that reports the failure does
C8_Step ==
    "auth_error" \in messages' =>
        /\ rendered' = {}
        /\ UNCHANGED store_vars
        /\ "connected" \notin messages'

\* C8: a run that reports a connection or authorization failure renders no
\* view, writes nothing to the spreadsheet, and reports no successful
\* connection.
C8_FailureIsFatal == [][C8_Step]_vars

\* rows (sheet rows) of the log in a category
DailyRowsOf(cat) == {i \in 2..Len(daily) : daily[i][2] = Label(cat)}

\* positions of the shown ledger rows in a category
ShownRowsOf(cat) ==
    {n \in 1..Len(shown.rows) : shown.rows[n].cells[2] = Label(cat)}

\* C9: the dashboard's breakdown and the ledger's totals table report, for
\* each category with a row, one line whose amount is the numeric sum of the
\* normalized amounts of the rows of that category.
C9_GroupedSums ==
    /\ (by_cat # <<>> /\ "transaction_added" \notin messages) =>
          /\ \A n \in 1..Len(by_cat) :
                by_cat[n].Amount =
                    SumOver([i \in DailyRowsOf(by_cat[n].Category) |->
                                NormVal(daily[i][3])],
                            DailyRowsOf(by_cat[n].Category))
          /\ \A i \in 2..Len(daily) :
                Cardinality({n \in 1..Len(by_cat) :
                                Label(by_cat[n].Category) = daily[i][2]}) = 1
    /\ (shown.drawn /\ raised = "none") =>
          /\ \A n \in 1..Len(cat_totals) :
                /\ IsNumeral(cat_totals[n].Amount)
                /\ NumeralVal(cat_totals[n].Amount) =
                       SumOver([m \in ShownRowsOf(cat_totals[n].Category) |->
                                   NormVal(shown.rows[m].cells[3])],
                               ShownRowsOf(cat_totals[n].Category))
          /\ \A m \in 1..Len(shown.rows) :
                Cardinality({n \in 1..Len(cat_totals) :
                                Label(cat_totals[n].Category) =
                                    shown.rows[m].cells[2]}) = 1

\* what a step does to a settings table that holds each key once
C10_Step ==
    KeysOnce(dash) =>
        /\ KeysOnce(dash')
        /\ "saved_settings" \in messages' =>
              \A k \in SettingsKeys \ {"Monthly_Income", "Rental_Monthly", "Mode"} :
                  \A i \in RowsWithKey(dash, k) :
                      i <= Len(dash') /\ dash'[i] = dash[i]

\* C10: a run that saves the dashboard settings, starting from a settings
\* table that holds each key once, leaves every key other than
\* Monthly_Income, Rental_Monthly and Mode in its row with its value; and a
\* step from a table that holds each key once leads to such a table.
C10_SaveSettingsFrame == [][C10_Step]_vars

----------------------------------------------------------------------------
(* Specification SpecToFloat: to_float applied to enumerated arguments *)

TextTokens == {"$", ",", " ", "-", ".", "1", "2", "a"}

TextsUpTo(n) == UNION {[1..k -> TextTokens] : k \in 0..n}

\* the examples of the program's documentation
TfExamples ==
    { <<"$", "1", ",", "2", "3", "4", ".", "5", "6">>,
      <<"a", "b", "c">>,
      <<" ", "$", "1", "2", ",", "0", "0", "0", ".", "5", " ">>,
      <<"Food">> }

TfArgs ==
    {Str(s) : s \in TextsUpTo(MaxTextLen) \cup TfExamples}
        \cup {Num(v) : v \in {0, 5 * Scale, 0 - Scale}} \cup {None}

InitToFloat ==
    /\ tf_in \in TfArgs
    /\ tf_out = NotCalled
    /\ StoreIdle
    /\ PageIdle

ToFloatCall ==
    /\ tf_out = NotCalled
    /\ tf_out' = [called |-> TRUE, val |-> to_float(tf_in)]
    /\ UNCHANGED <<tf_in, store_vars, cache_vars, page_vars>>

NextToFloat == ToFloatCall

SpecToFloat == InitToFloat /\ [][NextToFloat]_vars

----------------------------------------------------------------------------
(* C3 *)

\* C3: to_float is total - every call returns a number, never raises - and
\* returns the numeric value of the text left after removing "$", "," and
\* surrounding whitespace when that text is a numeral, the number itself for a
\* number, and zero for everything else (None, empty or arbitrary text).
C3_ToFloatTotal ==
    tf_out.called =>
        /\ tf_out.val \in Int
        /\ tf_in.kind = "num" => tf_out.val = tf_in.v
        /\ tf_in.kind = "none" => tf_out.val = 0
        /\ tf_in.kind = "str" =>
              tf_out.val = IF IsNumeral(Cleaned(tf_in.s))
                           THEN NumeralVal(Cleaned(tf_in.s))
                           ELSE 0
        /\ tf_in.s = <<"$", "1", ",", "2", "3", "4", ".", "5", "6">> =>
              tf_out.val * 100 = 123456 * Scale
        /\ tf_in.s = <<"a", "b", "c">> => tf_out.val = 0

\* a currency-formatted argument with "$" and a thousands separator was
\* normalized to a non-zero number
C3_Witness ==
    /\ tf_out.called
    /\ tf_in.kind = "str"
    /\ \E i \in 1..Len(tf_in.s) : tf_in.s[i] = "$"
    /\ \E i \in 1..Len(tf_in.s) : tf_in.s[i] = ","
    /\ tf_out.val # 0

====
